---------------------------- MODULE Spec2Model ----------------------------
(***************************************************************************)
(* A model of velox/exec/SortWindowBuild.cpp: the sort-based window        *)
(* partition builder.  Rows are accumulated in a row container, either     *)
(* sorted in memory and cut into partitions by a doubling search, or       *)
(* spilled as sorted runs and read back partition by partition from an     *)
(* ordered merge stream.                                                   *)
(*                                                                         *)
(* A row has one partition key column (pk) and one ORDER BY key column     *)
(* (sk) and no other column, so rows with equal keys are equal rows.  The  *)
(* row container keeps no order the build exposes (its rows are only ever  *)
(* sorted or spilled), so it is a bag of rows.  C++ indices are 0-based;   *)
(* the sequences here are 1-based, so sortedRows_[i] is rows[i + 1].       *)
(***************************************************************************)
EXTENDS Integers, Sequences, FiniteSets, Bags, TLC

\* ------------------------------------------------------------------ bounds
\* Most rows one build receives over all its batches.
MaxRows == 3
\* Most rows of one input batch.
MaxBatch == 2
\* Most nextPartition() calls made after the last partition was returned.
MaxOverrun == 2
\* Longest sorted sequence the boundary search is run on by itself.
MaxFindLen == 16

\* The null key value; the non-null key values are positive.
NULL == 0
PartitionKeyValues == {NULL, 1, 2}
SortKeyValues == {NULL, 1, 2}

\* ------------------------------------------------------------- comparison
\* CompareFlags{}: the default flags pushed for every partition key.
DefaultCompareFlags == [nullsFirst |-> TRUE, ascending |-> TRUE, equalsOnly |-> FALSE]

\* The number of partition key columns of the modelled window node.
numPartitionKeys == 1

\* Flags that ignore the sort orders: every key gets the default flags.
makeCompareFlagsAllDefault(nPartitionKeys, sortingOrders) ==
  [i \in 1..(nPartitionKeys + Len(sortingOrders)) |-> DefaultCompareFlags]

\* makeCompareFlags: default flags for the partition keys, then one entry per
\* ORDER BY key mirroring its sort order, never equality-only.
makeCompareFlags(nPartitionKeys, sortingOrders) ==
  [i \in 1..nPartitionKeys |-> DefaultCompareFlags]
    \o [i \in 1..Len(sortingOrders) |->
          [nullsFirst |-> sortingOrders[i].nullsFirst,
           ascending  |-> sortingOrders[i].ascending,
           equalsOnly |-> FALSE]]

\* The row container's comparison of two values of one column under flags:
\* negative, zero or positive.  Nulls are placed by nullsFirst alone.
CompareValues(a, b, flags) ==
  IF a = NULL /\ b = NULL THEN 0
  ELSE IF a = NULL THEN (IF flags.nullsFirst THEN -1 ELSE 1)
  ELSE IF b = NULL THEN (IF flags.nullsFirst THEN 1 ELSE -1)
  ELSE IF a = b THEN 0
  ELSE IF (a < b) = flags.ascending THEN -1 ELSE 1

\* The key columns of a row in key order: partition keys, then ORDER BY keys.
KeyColumns(row) == <<row.pk, row.sk>>

\* The comparison of two rows by the combined key-compare list: the first
\* column that differs decides.
RECURSIVE CompareRowsFrom(_, _, _, _)
CompareRowsFrom(l, r, flags, i) ==
  IF i > Len(flags) THEN 0
  ELSE LET c == CompareValues(KeyColumns(l)[i], KeyColumns(r)[i], flags[i])
       IN IF c # 0 THEN c ELSE CompareRowsFrom(l, r, flags, i + 1)

CompareRows(l, r, flags) == CompareRowsFrom(l, r, flags, 1)

\* rows is ordered by the combined key-compare list.
IsSortedBy(rows, flags) ==
  \A i \in 1..(Len(rows) - 1) : CompareRows(rows[i], rows[i + 1], flags) <= 0

Range(s) == {s[i] : i \in 1..Len(s)}

\* How often x occurs in seq.
Count(seq, x) == Cardinality({i \in 1..Len(seq) : seq[i] = x})

\* The rows of a sequence as a bag.
BagOfSeq(seq) == [x \in Range(seq) |-> Count(seq, x)]

\* data_->listRows: the rows of the row container, listed in some order.
RECURSIVE ListRows(_)
ListRows(B) ==
  IF BagToSet(B) = {} THEN <<>>
  ELSE LET x == CHOOSE y \in BagToSet(B) : TRUE
       IN <<x>> \o ListRows(B (-) SetToBag({x}))

\* The ordered sequence sorted with one more row put at its place.
RECURSIVE InsertRow(_, _, _)
InsertRow(row, sorted, flags) ==
  IF sorted = <<>> THEN <<row>>
  ELSE IF CompareRows(row, Head(sorted), flags) <= 0 THEN <<row>> \o sorted
  ELSE <<Head(sorted)>> \o InsertRow(row, Tail(sorted), flags)

\* PrefixSort::sort and the spiller's sort of a run: the rows ordered by
\* flags.  Rows that tie on every key are equal rows, so the order the
\* sorter leaves them in does not show.
RECURSIVE SortRows(_, _)
SortRows(rows, flags) ==
  IF rows = <<>> THEN <<>>
  ELSE InsertRow(Head(rows), SortRows(Tail(rows), flags), flags)

\* compareRowsWithKeys(lhs, rhs, partitionKeyInfo_) as used by the boundary
\* search: whether the partition keys of the two rows differ.
compareRowsWithKeys(lhs, rhs) == lhs.pk # rhs.pk


\* A probe distance that grows by one.
NextDistanceStepping(distance) == distance + 1

\* distance *= 2 of the for loop.
NextDistance(distance) == distance * 2

\* ------------------------------------------------ partition boundary search
\* The for loop of findNextPartitionStartRow: probe right = left + distance
\* with distance 1, 2, 4, ... while distance < lastPosition - left; a probe
\* whose partition key differs from row[left]'s sets lastPosition and breaks.
\* Yields the loop's final distance and lastPosition.
RECURSIVE ProbeLoop(_, _, _, _)
ProbeLoop(rows, left, distance, lastPosition) ==
  IF distance < lastPosition - left
  THEN LET right == left + distance
       IN IF compareRowsWithKeys(rows[left + 1], rows[right + 1])
          THEN [distance |-> distance, lastPosition |-> right]
          ELSE ProbeLoop(rows, left, NextDistance(distance), lastPosition)
  ELSE [distance |-> distance, lastPosition |-> lastPosition]

\* An advance by the whole distance instead of half of it.
AdvanceLeftWhole(left, distance) == left + distance

\* left += distance / 2 at the end of one round of the while loop.
AdvanceLeft(left, distance) == left + (distance \div 2)

\* The while loop of findNextPartitionStartRow.
RECURSIVE SearchLoop(_, _, _, _)
SearchLoop(rows, left, right, lastPosition) ==
  IF right < lastPosition
  THEN LET p == ProbeLoop(rows, left, 1, lastPosition)
           newLeft == AdvanceLeft(left, p.distance)
       IN SearchLoop(rows, newLeft, newLeft + 1, p.lastPosition)
  ELSE right

findNextPartitionStartRow(rows, start) ==
  SearchLoop(rows, start, start + 1, Len(rows))

\* The while loop of computePartitionStartRows: push each next start.
RECURSIVE StartRowsLoop(_, _, _)
StartRowsLoop(rows, start, acc) ==
  IF start < Len(rows)
  THEN LET next == findNextPartitionStartRow(rows, start)
       IN StartRowsLoop(rows, next, Append(acc, next))
  ELSE acc

\* computePartitionStartRows: the boundary list of the sorted rows; the
\* check that there is at least one sorted row fails otherwise.
computePartitionStartRows(rows) ==
  IF Len(rows) > 0
  THEN [failed |-> FALSE, partitionStartRows |-> StartRowsLoop(rows, 0, <<0>>)]
  ELSE [failed |-> TRUE, partitionStartRows |-> <<0>>]

\* The reference for the search: the result of a linear scan from start.
LinearScan(rows, start) ==
  LET differing == {i \in (start + 1)..(Len(rows) - 1) :
                      rows[i + 1].pk # rows[start + 1].pk}
  IN IF differing = {} THEN Len(rows)
     ELSE CHOOSE i \in differing : \A j \in differing : i <= j

\* --------------------------------------------------------------- the build
VARIABLES
  spillConfig,          \* spillConfig_ # nullptr: spilling is enabled
  sortKeyInfo,          \* sortKeyInfo_: the sort order of the ORDER BY key
  compareFlags,         \* compareFlags_: the combined key-compare list
  data,                 \* data_: the bag of rows held by the row container
  numRows,              \* numRows_: the running row count
  spiller,              \* spiller_ # nullptr
  sortingKeys,          \* the sorting keys spiller_ was constructed with
  checkFailed,          \* the check of setupSpiller has failed
  runs,                 \* the sorted runs spiller_ holds, oldest first
  spillStats,           \* spillStats_: the number of runs written so far
  merge,                \* merge_ # nullptr
  stream,               \* the rows merge_ has still to deliver, in order
  sortedRows,           \* sortedRows_
  partitionStartRows,   \* partitionStartRows_
  currentPartition,     \* currentPartition_
  finalized,            \* the caller has called noMoreInput()
  input,                \* the bag of every row passed to addInput() so far
  yielded,              \* the views the drain loop has received, in order
  ret,                  \* the outcome of the last call
  view,                 \* the rows of the view nextPartition() returned last
  drain,                \* how far the caller's drain loop has come; "broken"
                        \* once a call left the loop's order, after which the
                        \* caller is followed no further
  search,               \* the position of a boundary search run step by step
  fit,                  \* the inputs and the position of an addInput() or
                        \* noMoreInput() call followed step by step
  nonReclaimableSection,\* *nonReclaimableSection_: the flag shared with the
                        \* memory governor
  reserving             \* the call of the driving thread that is inside a
                        \* reservation request, with the guard's saved flag

buildVars == <<spillConfig, sortKeyInfo, compareFlags, data, numRows, spiller,
               sortingKeys, checkFailed, runs, spillStats, merge,
               stream, sortedRows, partitionStartRows, currentPartition>>
callerVars == <<finalized, input, yielded, ret, view, drain>>
threadVars == <<nonReclaimableSection, reserving>>
vars == <<buildVars, callerVars, search, fit, threadVars>>

\* The fields of the build as one record, the object the methods work on.
Build ==
  [spillConfig |-> spillConfig, sortKeyInfo |-> sortKeyInfo,
   compareFlags |-> compareFlags, data |-> data,
   numRows |-> numRows, spiller |-> spiller, sortingKeys |-> sortingKeys,
   checkFailed |-> checkFailed, runs |-> runs,
   spillStats |-> spillStats, merge |-> merge,
   stream |-> stream, sortedRows |-> sortedRows,
   partitionStartRows |-> partitionStartRows,
   currentPartition |-> currentPartition]

\* The build b becomes the next state of the fields.
BecomesBuild(b) ==
  /\ spillConfig' = b.spillConfig
  /\ sortKeyInfo' = b.sortKeyInfo
  /\ compareFlags' = b.compareFlags
  /\ data' = b.data
  /\ numRows' = b.numRows
  /\ spiller' = b.spiller
  /\ sortingKeys' = b.sortingKeys
  /\ checkFailed' = b.checkFailed
  /\ runs' = b.runs
  /\ spillStats' = b.spillStats
  /\ merge' = b.merge
  /\ stream' = b.stream
  /\ sortedRows' = b.sortedRows
  /\ partitionStartRows' = b.partitionStartRows
  /\ currentPartition' = b.currentPartition

\* The build right after its constructor, for a window node with the given
\* ORDER BY sort order and with or without a spill configuration.
NewBuild(spillCfg, sortingOrder) ==
  [spillConfig |-> spillCfg,
   sortKeyInfo |-> sortingOrder,
   compareFlags |-> makeCompareFlags(numPartitionKeys, <<sortingOrder>>),
   data |-> EmptyBag, numRows |-> 0, spiller |-> FALSE, sortingKeys |-> <<>>,
   checkFailed |-> FALSE, runs |-> <<>>,
   spillStats |-> 0,
   merge |-> FALSE, stream |-> <<>>, sortedRows |-> <<>>,
   partitionStartRows |-> <<>>, currentPartition |-> -1]

\* ------------------------------------------------------------------- spill
\* SpillState::makeSortingKeys: one sorting key for each compare flag, on
\* the column of the flag's index.
makeSortingKeys(flags) ==
  [i \in 1..Len(flags) |-> [index |-> i - 1, flags |-> flags[i]]]

\* The compare flags of the sorting keys, in column order.
KeyFlags(keys) == [i \in 1..Len(keys) |-> keys[i].flags]

\* setupSpiller: the check that there is no spiller yet, then the spiller is
\* created over the row container with the sorting keys made from
\* compareFlags_.
setupSpiller(b) ==
  IF b.spiller THEN [b EXCEPT !.checkFailed = TRUE]
  ELSE [b EXCEPT !.spiller = TRUE,
                 !.sortingKeys = makeSortingKeys(b.compareFlags)]

\* spiller_->spill(): the rows of the row container are written as one more
\* run sorted by the spiller's sorting keys; no rows, no run.
SpillerSpill(b) ==
  IF BagCardinality(b.data) = 0 THEN {b}
  ELSE {[b EXCEPT !.runs = Append(@, SortRows(ListRows(b.data),
                                              KeyFlags(b.sortingKeys))),
                  !.spillStats = @ + 1]}

\* data_->clear() of spill().
ClearData(b) == [b EXCEPT !.data = EmptyBag]

\* A spill() that sets the spiller up on every call.
spillSettingUp(b) ==
  LET b1 == setupSpiller(b)
  IN IF b1.checkFailed THEN {b1}
     ELSE {ClearData(b2) : b2 \in SpillerSpill(b1)}

\* spill(): set up the spiller on first use, write the rows, clear the row
\* container; a failed check of setupSpiller ends the call.
spill(b) ==
  LET b1 == IF ~b.spiller THEN setupSpiller(b) ELSE b
  IN IF b1.checkFailed THEN {b1}
     ELSE {ClearData(b2) : b2 \in SpillerSpill(b1)}

\* An ensureInputFits that looks at the test hook before the row container.
ensureInputFitsHookFirst(b, testingTriggerSpill, fits) ==
  IF ~b.spillConfig THEN {[build |-> b, reserve |-> FALSE]}
  ELSE IF testingTriggerSpill THEN {[build |-> b1, reserve |-> FALSE] : b1 \in spill(b)}
  ELSE IF BagCardinality(b.data) = 0 THEN {[build |-> b, reserve |-> FALSE]}
  ELSE IF fits THEN {[build |-> b, reserve |-> FALSE]}
  ELSE {[build |-> b, reserve |-> TRUE]}

\* ensureInputFits up to its reservation request: nothing when spilling is
\* disabled or the row container is empty; a spill when the test hook fires;
\* nothing when the batch fits; otherwise (reserve) the reservation is to be
\* grown by maybeReserve under the section guard.
ensureInputFits(b, testingTriggerSpill, fits) ==
  IF ~b.spillConfig THEN {[build |-> b, reserve |-> FALSE]}
  ELSE IF BagCardinality(b.data) = 0 THEN {[build |-> b, reserve |-> FALSE]}
  ELSE IF testingTriggerSpill THEN {[build |-> b1, reserve |-> FALSE] : b1 \in spill(b)}
  ELSE IF fits THEN {[build |-> b, reserve |-> FALSE]}
  ELSE {[build |-> b, reserve |-> TRUE]}

\* The row loop of addInput: every row of the batch is stored in a new row of
\* the row container.
StoreRows(d, batch) == d (+) BagOfSeq(batch)

\* A row count that is set to the batch size instead of raised by it.
AddRowCountAssigned(n, batch) == Len(batch)

\* numRows_ += input->size().
AddRowCount(n, batch) == n + Len(batch)

\* addInput(input) from its row loop on: the rows are stored and counted.
StoreInput(b, batch) ==
  [b EXCEPT !.data = StoreRows(@, batch), !.numRows = AddRowCount(@, batch)]

\* An ensureSortFits that asks for no reservation.
ensureSortFitsUnreserved(b, testingTriggerSpill) ==
  IF ~b.spillConfig THEN {[build |-> b, reserve |-> FALSE]}
  ELSE IF testingTriggerSpill THEN {[build |-> b1, reserve |-> FALSE] : b1 \in spill(b)}
  ELSE {[build |-> b, reserve |-> FALSE]}

\* ensureSortFits up to its reservation request: nothing when spilling is
\* disabled; a spill when the test hook fires; nothing when a spiller
\* exists; otherwise (reserve) the sort buffer is to be reserved by
\* maybeReserve under the section guard.
ensureSortFits(b, testingTriggerSpill) ==
  IF ~b.spillConfig THEN {[build |-> b, reserve |-> FALSE]}
  ELSE IF testingTriggerSpill THEN {[build |-> b1, reserve |-> FALSE] : b1 \in spill(b)}
  ELSE IF b.spiller THEN {[build |-> b, reserve |-> FALSE]}
  ELSE {[build |-> b, reserve |-> TRUE]}

\* -------------------------------------------------------------- finalization
\* sortPartitions up to the boundary computation: the row handles of the row
\* container are listed into sortedRows_ and sorted by compareFlags_.
SortedRowsOutcomes(b) == {SortRows(ListRows(b.data), b.compareFlags)}

\* sortPartitions(): list, sort, then computePartitionStartRows().
sortPartitions(b) ==
  {LET c == computePartitionStartRows(s)
   IN [build |-> [b EXCEPT !.sortedRows = s,
                           !.partitionStartRows = c.partitionStartRows],
       ret |-> IF c.failed THEN "fail" ELSE "void"] :
     s \in SortedRowsOutcomes(b)}

\* All rows of the runs.
RECURSIVE RunRows(_)
RunRows(rs) == IF rs = <<>> THEN <<>> ELSE Head(rs) \o RunRows(Tail(rs))

\* The ordered reader over the single spill partition: the runs are merged
\* by the sorting keys, the least of the runs' first rows coming next.
RECURSIVE MergeRuns(_, _)
MergeRuns(rs, flags) ==
  LET live == {n \in 1..Len(rs) : rs[n] # <<>>}
  IN IF live = {} THEN <<>>
     ELSE LET n == CHOOSE k \in live :
                     \A j \in live : CompareRows(Head(rs[k]), Head(rs[j]), flags) <= 0
          IN <<Head(rs[n])>> \o MergeRuns([rs EXCEPT ![n] = Tail(@)], flags)

MergeOutcomes(rs, flags) == {MergeRuns(rs, flags)}

\* finishSpill: the number of spill partitions handed back, one when
\* anything was written.
SpillPartitionSetSize(b) == IF b.runs = <<>> THEN 0 ELSE 1

\* spiller_->finishSpill(spillPartitionSet) and createOrderedReader: the
\* runs leave the spiller for the reader, which delivers them merged.
OpenMerge(b) ==
  {[b EXCEPT !.merge = TRUE, !.stream = m, !.runs = <<>>] :
     m \in MergeOutcomes(b.runs, b.compareFlags)}

\* A spill branch that opens the reader without spilling the rest first.
FinishAndMergeUnflushed(b) ==
  IF b.merge \/ SpillPartitionSetSize(b) # 1
  THEN {[build |-> b, ret |-> "fail"]}
  ELSE {[build |-> b1, ret |-> "void"] : b1 \in OpenMerge(b)}

\* The spill branch of noMoreInput: spill the rest, finish the spill, open
\* the ordered reader.
FinishAndMerge(b) ==
  UNION {IF b2.merge \/ SpillPartitionSetSize(b2) # 1
         THEN {[build |-> b2, ret |-> "fail"]}
         ELSE {[build |-> b3, ret |-> "void"] : b3 \in OpenMerge(b2)} :
           b2 \in spill(b)}

\* A finalization that sorts in memory whether or not the build has spilled.
SortOrMergeInMemory(b) == sortPartitions(b)

\* noMoreInput() after ensureSortFits(): the spill branch when a spiller
\* exists and the in-memory sort otherwise.
SortOrMerge(b) == IF b.spiller THEN FinishAndMerge(b) ELSE sortPartitions(b)

\* noMoreInput() past its early return: ensureSortFits(), where the call
\* waits in maybeReserve (ret "reserve") when a reservation is requested,
\* then the spill branch or the sort.
FinalizeRows(b, testingTriggerSpill) ==
  UNION {IF e.reserve THEN {[build |-> e.build, ret |-> "reserve"]}
         ELSE SortOrMerge(e.build) :
           e \in ensureSortFits(b, testingTriggerSpill)}

\* A noMoreInput() without the early return.
noMoreInputAlways(b, testingTriggerSpill) == FinalizeRows(b, testingTriggerSpill)

\* noMoreInput(): nothing to do without rows.
noMoreInput(b, testingTriggerSpill) ==
  IF b.numRows = 0 THEN {[build |-> b, ret |-> "void"]}
  ELSE FinalizeRows(b, testingTriggerSpill)

\* ------------------------------------------------------------------ draining
\* A comparison that runs over every key column, not only the partition keys.
AnyKeyDiffers(last, next) ==
  \E i \in 1..Len(KeyColumns(last)) : KeyColumns(last)[i] # KeyColumns(next)[i]

\* data_->compare under CompareFlags::equality(kNullAsValue) over the
\* partition key columns: whether some partition key of the two rows differs,
\* null being equal to null.
PartitionKeysDiffer(last, next) ==
  \E i \in 1..numPartitionKeys : KeyColumns(last)[i] # KeyColumns(next)[i]

\* A load loop that pops the row that starts the next partition.
RECURSIVE LoadLoopPopping(_, _)
LoadLoopPopping(str, buffer) ==
  IF str = <<>> THEN [stream |-> str, buffer |-> buffer]
  ELSE LET next == Head(str)
           newPartition == buffer # <<>> /\ PartitionKeysDiffer(buffer[Len(buffer)], next)
       IN IF newPartition THEN [stream |-> Tail(str), buffer |-> buffer]
          ELSE LoadLoopPopping(Tail(str), Append(buffer, next))

\* The loop of loadNextPartitionFromSpill over the merge stream: rows are
\* copied and popped until the stream ends or the next row starts a new
\* partition; that row stays in the stream.
RECURSIVE LoadLoop(_, _)
LoadLoop(str, buffer) ==
  IF str = <<>> THEN [stream |-> str, buffer |-> buffer]
  ELSE LET next == Head(str)
           newPartition == buffer # <<>> /\ PartitionKeysDiffer(buffer[Len(buffer)], next)
       IN IF newPartition THEN [stream |-> str, buffer |-> buffer]
          ELSE LoadLoop(Tail(str), Append(buffer, next))

\* loadNextPartitionFromSpill(): sortedRows_ and data_ are cleared, then
\* filled with the next partition's rows.
loadNextPartitionFromSpill(b) ==
  LET l == LoadLoop(b.stream, <<>>)
  IN [b EXCEPT !.sortedRows = l.buffer, !.data = BagOfSeq(l.buffer),
               !.stream = l.stream]

\* partitionStartRows_.size() - 2 in size_t arithmetic.
SizeMinusTwo(n) == IF n >= 2 THEN n - 2 ELSE n - 2 + 2^64

\* A bound one too high.
IntOfSizeMinusOne(n) == n - 1

\* static_cast<int>(partitionStartRows_.size() - 2).
IntOfSizeMinusTwo(n) == n - 2

\* A hasNextPartition() whose memory branch moves the cursor to the
\* partition it announces.
hasNextPartitionAdvancing(b) ==
  IF b.merge
  THEN LET b1 == loadNextPartitionFromSpill(b)
       IN [build |-> b1, ret |-> IF b1.sortedRows # <<>> THEN "true" ELSE "false"]
  ELSE IF Len(b.partitionStartRows) > 0
          /\ b.currentPartition < IntOfSizeMinusTwo(Len(b.partitionStartRows))
       THEN [build |-> [b EXCEPT !.currentPartition = @ + 1], ret |-> "true"]
       ELSE [build |-> b, ret |-> "false"]

\* A hasNextPartition() whose memory branch tests the cursor for being
\* different from the last partition.
hasNextPartitionUnequal(b) ==
  IF b.merge
  THEN LET b1 == loadNextPartitionFromSpill(b)
       IN [build |-> b1, ret |-> IF b1.sortedRows # <<>> THEN "true" ELSE "false"]
  ELSE [build |-> b,
        ret |-> IF Len(b.partitionStartRows) > 0
                   /\ b.currentPartition # IntOfSizeMinusTwo(Len(b.partitionStartRows))
                THEN "true" ELSE "false"]

\* hasNextPartition().
hasNextPartition(b) ==
  IF b.merge
  THEN LET b1 == loadNextPartitionFromSpill(b)
       IN [build |-> b1, ret |-> IF b1.sortedRows # <<>> THEN "true" ELSE "false"]
  ELSE [build |-> b,
        ret |-> IF Len(b.partitionStartRows) > 0
                   /\ b.currentPartition < IntOfSizeMinusTwo(Len(b.partitionStartRows))
                THEN "true" ELSE "false"]

\* The range of sortedRows_ a memory-mode partition view covers.
PartitionRange(b, p) ==
  SubSeq(b.sortedRows, b.partitionStartRows[p + 1] + 1, b.partitionStartRows[p + 2])

\* A merge branch that wraps the buffer without checking it.
nextPartitionFromMergeUnchecked(b) ==
  [build |-> b, ret |-> "view", view |-> b.sortedRows]

\* The merge branch of nextPartition(): the loaded buffer is the partition;
\* the check fails on an empty buffer.
nextPartitionFromMerge(b) ==
  IF b.sortedRows = <<>>
  THEN [build |-> b, ret |-> "fail", view |-> <<>>]
  ELSE [build |-> b, ret |-> "view", view |-> b.sortedRows]

\* The memory branch of nextPartition(): the first check fails without a
\* boundary list; the cursor advances; the second check fails past the last
\* partition.
nextPartitionFromMemory(b) ==
  IF b.partitionStartRows = <<>>
  THEN [build |-> b, ret |-> "fail", view |-> <<>>]
  ELSE LET b1 == [b EXCEPT !.currentPartition = @ + 1]
       IN IF b1.currentPartition > SizeMinusTwo(Len(b1.partitionStartRows))
          THEN [build |-> b1, ret |-> "fail", view |-> <<>>]
          ELSE [build |-> b1, ret |-> "view",
                view |-> PartitionRange(b1, b1.currentPartition)]

\* nextPartition(): ret is "view" with the rows of the returned partition, or
\* "fail" when a check fails.
nextPartition(b) ==
  IF b.merge THEN nextPartitionFromMerge(b) ELSE nextPartitionFromMemory(b)

\* ------------------------------------------------------------------- actions
\* No boundary search is being stepped.
SearchIdle == [pc |-> "idle"]

\* The driving thread is inside no reservation request.
NotReserving == [op |-> "none"]

\* No ensureInputFits() or ensureSortFits() call is being followed on its own.
FitIdle == [pc |-> "idle"]

\* The input batches of k rows.
Batches(k) == [1..k -> [pk : PartitionKeyValues, sk : SortKeyValues]]

\* The build after its constructor, not marked non-reclaimable: the memory
\* governor may reclaim from it at any time before noMoreInput().  A build
\* marked non-reclaimable by its caller takes the same steps without the
\* Spill steps outside its reservation requests.
Init ==
  /\ \E spillCfg \in BOOLEAN :
       \E sortingOrder \in [nullsFirst : BOOLEAN, ascending : BOOLEAN] :
         LET b == NewBuild(spillCfg, sortingOrder)
         IN /\ spillConfig = b.spillConfig
            /\ sortKeyInfo = b.sortKeyInfo
            /\ compareFlags = b.compareFlags
            /\ data = b.data
            /\ numRows = b.numRows
            /\ spiller = b.spiller
            /\ sortingKeys = b.sortingKeys
            /\ checkFailed = b.checkFailed
            /\ runs = b.runs
            /\ spillStats = b.spillStats
            /\ merge = b.merge
            /\ stream = b.stream
            /\ sortedRows = b.sortedRows
            /\ partitionStartRows = b.partitionStartRows
            /\ currentPartition = b.currentPartition
  /\ finalized = FALSE
  /\ input = EmptyBag
  /\ yielded = <<>>
  /\ ret = "void"
  /\ view = <<>>
  /\ drain = "none"
  /\ search = SearchIdle
  /\ fit = FitIdle
  /\ nonReclaimableSection = FALSE
  /\ reserving = NotReserving

\* memory::ReclaimableSectionGuard guard(nonReclaimableSection_): the section
\* up to the end of the guard's scope is reclaimable, the flag is cleared.
GuardEnter(flag) == FALSE

\* A guard that leaves the flag cleared at the end of its scope.
GuardExitCleared(old) == FALSE

\* The end of the guard's scope: the flag is what it was before the guard.
GuardExit(old) == old

\* The driving thread enters the guarded block of op and calls
\* maybeReserve.
EnterReserve(op) ==
  /\ reserving' = [op |-> op, result |-> "pending",
                   old |-> nonReclaimableSection]
  /\ nonReclaimableSection' = GuardEnter(nonReclaimableSection)

\* maybeReserve returns to the driving thread, with or without the
\* reservation, and the guard's scope ends.
ReserveReturn ==
  /\ reserving # NotReserving
  /\ reserving.result = "pending"
  /\ \E reserved \in BOOLEAN :
       reserving' = [reserving EXCEPT !.result = IF reserved THEN "ok" ELSE "failed"]
  /\ nonReclaimableSection' = GuardExit(reserving.old)
  /\ UNCHANGED <<buildVars, callerVars, search, fit>>

AfterMaybeReserveSpilling(b, result) ==
  IF result = "ok" THEN {b} ELSE spill(b)

\* What ensureInputFits and ensureSortFits do with the build once
\* maybeReserve has returned: nothing with the reservation, a warning in the
\* log without it.
AfterMaybeReserve(b, result) ==
  IF result = "ok" THEN {b} ELSE {b}

\* The builds a reservation request of the driving thread ends with: under
\* the guard the memory governor may have the build spill while maybeReserve
\* runs, and maybeReserve returns with or without the reservation.
RequestOutcomes(b) ==
  UNION {AfterMaybeReserve(g, result) :
           g \in {b} \cup (IF GuardEnter(nonReclaimableSection) THEN {}
                           ELSE spill(b)),
           result \in {"ok", "failed"}}

\* The build ensureInputFits, or ensureSortFits, returns with after outcome e
\* of the part before maybeReserve.
FitsOutcomes(e) == IF e.reserve THEN RequestOutcomes(e.build) ELSE {e.build}

\* The caller passes one more batch; the test hook may fire in it.
AddInput ==
  /\ ~finalized
  /\ drain # "broken"
  /\ reserving = NotReserving
  /\ \E k \in 0..MaxBatch :
       /\ BagCardinality(input) + k <= MaxRows
       /\ \E testingTriggerSpill \in BOOLEAN : \E fits \in BOOLEAN :
            \E e \in ensureInputFits(Build, testingTriggerSpill, fits) :
              \E b \in FitsOutcomes(e) : \E batch \in Batches(k) :
                /\ BecomesBuild(StoreInput(b, batch))
                /\ input' = input (+) BagOfSeq(batch)
  /\ ret' = "void"
  /\ UNCHANGED <<finalized, yielded, view, drain, search, fit, threadVars>>

\* The memory governor reclaims from a build that can spill, while it
\* accepts input and is not marked non-reclaimable.
CanReclaim == spillConfig /\ ~finalized /\ ~nonReclaimableSection

\* The memory governor has the build spill.
Spill ==
  /\ drain # "broken"
  /\ CanReclaim
  /\ \E b \in spill(Build) : BecomesBuild(b)
  /\ UNCHANGED <<callerVars, search, fit, threadVars>>

\* The caller ends the input.
NoMoreInput ==
  /\ ~finalized
  /\ drain # "broken"
  /\ reserving = NotReserving
  /\ \E testingTriggerSpill \in BOOLEAN :
       \E o \in noMoreInput(Build, testingTriggerSpill) :
         IF o.ret = "reserve"
         THEN \E b \in RequestOutcomes(o.build) : \E o2 \in SortOrMerge(b) :
                /\ BecomesBuild(o2.build)
                /\ ret' = o2.ret
         ELSE /\ BecomesBuild(o.build)
              /\ ret' = o.ret
  /\ finalized' = TRUE
  /\ drain' = "has"
  /\ UNCHANGED <<input, yielded, view, search, fit, threadVars>>

\* The drain loop after a hasNextPartition() call that returned r; the loop
\* starts with noMoreInput(), a call before it has left the loop's order.
DrainAfterHas(r) ==
  IF ~finalized THEN "broken"
  ELSE IF drain = "has" THEN (IF r = "true" THEN "next" ELSE "done")
  ELSE IF drain = "next" THEN "broken"
  ELSE drain

\* The drain loop after a nextPartition() call that returned r.
DrainAfterNext(r) ==
  IF ~finalized THEN "broken"
  ELSE IF drain = "next" THEN (IF r = "view" THEN "has" ELSE "broken")
  ELSE IF drain = "has" THEN "broken"
  ELSE drain

HasNextPartition ==
  /\ drain # "broken"
  /\ reserving = NotReserving
  /\ \E o \in {hasNextPartition(Build)} :
        /\ BecomesBuild(o.build)
        /\ ret' = o.ret
        /\ drain' = DrainAfterHas(o.ret)
  /\ UNCHANGED <<finalized, input, yielded, view, search, fit, threadVars>>

\* The calls made past the last partition are bounded.
NextPartitionBounded ==
  partitionStartRows # <<>> =>
    currentPartition < Len(partitionStartRows) - 2 + MaxOverrun

NextPartition ==
  /\ drain # "broken"
  /\ reserving = NotReserving
  /\ NextPartitionBounded
  /\ \E o \in {nextPartition(Build)} :
        /\ BecomesBuild(o.build)
        /\ ret' = o.ret
        /\ view' = o.view
        /\ yielded' = IF o.ret = "view" /\ DrainAfterNext(o.ret) # "broken"
                      THEN Append(yielded, o.view) ELSE yielded
        /\ drain' = DrainAfterNext(o.ret)
  /\ UNCHANGED <<finalized, input, search, fit, threadVars>>

Next ==
  \/ AddInput
  \/ Spill
  \/ NoMoreInput
  \/ HasNextPartition
  \/ NextPartition

Spec == Init /\ [][Next]_vars

\* ----------------------------------------------- a spill() during the drain
\* spill() is called on a build in memory mode after noMoreInput(): the
\* method itself does not look at where the build is.  The handles in
\* sortedRows_ then refer to rows that are gone, and the drain is followed no
\* further.
SpillWhileDraining ==
  /\ finalized
  /\ ~merge
  /\ drain # "broken"
  /\ spillConfig
  /\ ~nonReclaimableSection
  /\ \E b \in spill(Build) : BecomesBuild(b)
  /\ drain' = "broken"
  /\ UNCHANGED <<finalized, input, yielded, ret, view, search, fit, threadVars>>

NextLateSpill ==
  \/ Next
  \/ SpillWhileDraining

SpecLateSpill == Init /\ [][NextLateSpill]_vars

\* ------------------------------------------- the boundary search, step by step
\* The sequences of n partition key values in which no value is followed by
\* a smaller one, none of them smaller than least.
RECURSIVE SortedKeysFrom(_, _)
SortedKeysFrom(n, least) ==
  IF n = 0 THEN {<<>>}
  ELSE UNION {{<<v>> \o keys : keys \in SortedKeysFrom(n - 1, v)} :
                v \in {x \in PartitionKeyValues : x >= least}}

\* The sequences of n rows ordered by partition key under the default flags
\* (null first, then ascending), as sortedRows_ is when the search runs.
SortedKeyRows(n) ==
  {[i \in 1..n |-> [pk |-> keys[i], sk |-> NULL]] :
     keys \in SortedKeysFrom(n, NULL)}

\* An entry of the search that takes one row past the end of the sequence
\* for its last position.
SearchEnteredPastEnd(rows, start) ==
  [pc |-> "while", start |-> start, left |-> start, right |-> start + 1,
   distance |-> 0, lastPosition |-> Len(rows) + 1, compares |-> 0]

\* findNextPartitionStartRow(start) is entered: left = start,
\* right = left + 1, lastPosition = sortedRows_.size().
SearchEntered(rows, start) ==
  [pc |-> "while", start |-> start, left |-> start, right |-> start + 1,
   distance |-> 0, lastPosition |-> Len(rows), compares |-> 0]

\* The loop of computePartitionStartRows calls the search from start: the
\* calls-th call of the loop, which began at row first.
StartRowsCall(rows, start, calls, first) ==
  SearchEntered(rows, start) @@ [calls |-> calls, first |-> first]

\* The search is entered from a row of a sorted sequence, the boundary list
\* ending with that row.
InitFind ==
  /\ \E n \in 1..MaxFindLen : \E rows \in SortedKeyRows(n) : \E start \in 0..(n - 1) :
       /\ sortedRows = rows
       /\ data = BagOfSeq(rows)
       /\ input = BagOfSeq(rows)
       /\ numRows = n
       /\ search = StartRowsCall(rows, start, 1, start)
       /\ partitionStartRows = <<start>>
  /\ spillConfig = FALSE
  /\ sortKeyInfo = [nullsFirst |-> TRUE, ascending |-> TRUE]
  /\ compareFlags = makeCompareFlags(numPartitionKeys, <<>>)
  /\ spiller = FALSE
  /\ sortingKeys = <<>>
  /\ checkFailed = FALSE
  /\ runs = <<>>
  /\ spillStats = 0
  /\ merge = FALSE
  /\ stream = <<>>
  /\ currentPartition = -1
  /\ finalized = FALSE
  /\ yielded = <<>>
  /\ ret = "void"
  /\ view = <<>>
  /\ drain = "none"
  /\ nonReclaimableSection = FALSE
  /\ reserving = NotReserving
  /\ fit = FitIdle

\* while (right < lastPosition): enter a round with distance = 1.
FindEnterRound ==
  /\ search.pc = "while"
  /\ search.right < search.lastPosition
  /\ search' = [search EXCEPT !.pc = "for", !.distance = 1]
  /\ UNCHANGED <<buildVars, callerVars, fit, threadVars>>

\* The while loop ends: return right.
FindReturn ==
  /\ search.pc = "while"
  /\ ~(search.right < search.lastPosition)
  /\ search' = [search EXCEPT !.pc = "done"]
  /\ UNCHANGED <<buildVars, callerVars, fit, threadVars>>

\* One probe of the for loop: right = left + distance; a differing partition
\* key sets lastPosition and breaks, an equal one doubles distance.
FindProbe ==
  /\ search.pc = "for"
  /\ search.distance < search.lastPosition - search.left
  /\ LET right == search.left + search.distance
     IN search' =
          IF compareRowsWithKeys(sortedRows[search.left + 1], sortedRows[right + 1])
          THEN [search EXCEPT !.right = right, !.lastPosition = right,
                              !.compares = @ + 1, !.pc = "advance"]
          ELSE [search EXCEPT !.right = right, !.distance = NextDistance(@),
                              !.compares = @ + 1]
  /\ UNCHANGED <<buildVars, callerVars, fit, threadVars>>

\* The for loop ends because distance >= lastPosition - left.
FindProbeEnd ==
  /\ search.pc = "for"
  /\ ~(search.distance < search.lastPosition - search.left)
  /\ search' = [search EXCEPT !.pc = "advance"]
  /\ UNCHANGED <<buildVars, callerVars, fit, threadVars>>

\* left += distance / 2; right = left + 1.
FindAdvance ==
  /\ search.pc = "advance"
  /\ LET newLeft == AdvanceLeft(search.left, search.distance)
     IN search' = [search EXCEPT !.left = newLeft, !.right = newLeft + 1,
                                 !.pc = "while"]
  /\ UNCHANGED <<buildVars, callerVars, fit, threadVars>>

\* The loop of computePartitionStartRows after a call has returned next:
\* push it, and with start = next call the search again while
\* start < sortedRows_.size().
StartRowsPush ==
  /\ search.pc = "done"
  /\ partitionStartRows' = Append(partitionStartRows, search.right)
  /\ search' = IF search.right < Len(sortedRows)
               THEN StartRowsCall(sortedRows, search.right, search.calls + 1,
                                  search.first)
               ELSE [search EXCEPT !.pc = "end"]
  /\ UNCHANGED <<spillConfig, sortKeyInfo, compareFlags, data, numRows, spiller,
                 sortingKeys, checkFailed, runs, spillStats, merge, stream,
                 sortedRows, currentPartition, callerVars, fit, threadVars>>

NextFind ==
  \/ StartRowsPush
  \/ FindEnterRound
  \/ FindReturn
  \/ FindProbe
  \/ FindProbeEnd
  \/ FindAdvance

SpecFind == InitFind /\ [][NextFind]_vars

\* The search and the loop around it are straight code of the driving
\* thread: a step that can be taken is taken.
SpecFindFair == SpecFind /\ WF_vars(NextFind)

\* ------------------------------------- ensureInputFits on the pool's figures
\* The largest number of free rows, and of bytes, a call is followed with.
MaxFree == 2
MaxBytes == 2

\* The values of spillConfig_->minSpillableReservationPct a call is followed
\* with.
Percentages == {0, 50, 100}

\* What ensureInputFits reads of the row container, of its pool, of the
\* spill configuration and of the batch; the string allocator retains at
\* least the bytes that are free in it.
FitInputs ==
  {f \in [freeRows : 0..MaxFree, outOfLineFreeBytes : 0..MaxBytes,
          retainedSize : 0..MaxBytes, usedBytes : 0..MaxBytes,
          availableReservation : 0..MaxBytes,
          minSpillableReservationPct : Percentages,
          size : 0..MaxBatch, testingTriggerSpill : BOOLEAN] :
     f.retainedSize >= f.outOfLineFreeBytes}

\* The test of ensureInputFits on a row container of numStored rows: the
\* batch fits without a larger reservation.
InputFits(f, numStored) ==
  LET outOfLineBytes == f.retainedSize - f.outOfLineFreeBytes
      outOfLineBytesPerRow == outOfLineBytes \div numStored
      minReservationBytes ==
        (f.usedBytes * f.minSpillableReservationPct) \div 100
  IN /\ f.availableReservation >= minReservationBytes
     /\ f.freeRows > f.size
     /\ \/ outOfLineBytes = 0
        \/ f.outOfLineFreeBytes >= outOfLineBytesPerRow * f.size

\* The rows of a batch, or of a row container, of n rows whose keys are not
\* looked at.
BlankRows(n) == [i \in 1..n |-> [pk |-> NULL, sk |-> NULL]]

\* ensureSortFits reads none of the figures.
SortInputs ==
  {f \in FitInputs :
     /\ f.freeRows = 0 /\ f.outOfLineFreeBytes = 0 /\ f.retainedSize = 0
     /\ f.usedBytes = 0 /\ f.availableReservation = 0
     /\ f.minSpillableReservationPct = 0 /\ f.size = 0}

\* A build that holds up to MaxBatch rows is about to be passed a batch, or
\* to be told that the input has ended.
InitFit ==
  /\ \E spillCfg \in BOOLEAN : \E n \in 0..MaxBatch : \E stored \in Batches(n) :
       LET b == NewBuild(spillCfg, [nullsFirst |-> TRUE, ascending |-> TRUE])
       IN /\ spillConfig = b.spillConfig
          /\ sortKeyInfo = b.sortKeyInfo
          /\ compareFlags = b.compareFlags
          /\ data = BagOfSeq(stored)
          /\ input = BagOfSeq(stored)
          /\ numRows = n
          /\ spiller = b.spiller
          /\ sortingKeys = b.sortingKeys
          /\ checkFailed = b.checkFailed
          /\ runs = b.runs
          /\ spillStats = b.spillStats
          /\ merge = b.merge
          /\ stream = b.stream
          /\ sortedRows = b.sortedRows
          /\ partitionStartRows = b.partitionStartRows
          /\ currentPartition = b.currentPartition
          /\ \/ /\ stored = BlankRows(n)
                /\ \E f \in FitInputs :
                     fit = [pc |-> "call", op |-> "addInput", in |-> f]
             \/ \E f \in SortInputs :
                  fit = [pc |-> "call", op |-> "noMoreInput", in |-> f]
  /\ finalized = FALSE
  /\ yielded = <<>>
  /\ ret = "void"
  /\ view = <<>>
  /\ drain = "none"
  /\ search = SearchIdle
  /\ nonReclaimableSection \in BOOLEAN
  /\ reserving = NotReserving

\* addInput after ensureInputFits has returned with build b: the row loop
\* and the count.
AddInputGoesOn(b) ==
  /\ BecomesBuild(StoreInput(b, BlankRows(fit.in.size)))
  /\ input' = input (+) BagOfSeq(BlankRows(fit.in.size))
  /\ ret' = "void"
  /\ UNCHANGED <<finalized, drain>>

\* noMoreInput after ensureSortFits has returned with build b.
NoMoreInputGoesOn(b) ==
  /\ \E o \in SortOrMerge(b) :
       /\ BecomesBuild(o.build)
       /\ ret' = o.ret
  /\ finalized' = TRUE
  /\ drain' = "has"
  /\ UNCHANGED input

\* addInput is called with the batch: it returns, or calls maybeReserve under
\* the guard.
FitCallAddInput ==
  \E e \in ensureInputFits(Build, fit.in.testingTriggerSpill,
                           InputFits(fit.in, BagCardinality(data))) :
    IF e.reserve
    THEN /\ BecomesBuild(e.build)
         /\ EnterReserve("addInput")
         /\ fit' = [fit EXCEPT !.pc = "maybeReserve"]
         /\ UNCHANGED <<finalized, drain, input, ret>>
    ELSE /\ AddInputGoesOn(e.build)
         /\ fit' = [fit EXCEPT !.pc = "returned"]
         /\ UNCHANGED threadVars

\* noMoreInput is called: it returns, or calls maybeReserve under the guard.
FitCallNoMoreInput ==
  \E o \in noMoreInput(Build, fit.in.testingTriggerSpill) :
    /\ BecomesBuild(o.build)
    /\ IF o.ret = "reserve"
       THEN /\ EnterReserve("noMoreInput")
            /\ fit' = [fit EXCEPT !.pc = "maybeReserve"]
            /\ UNCHANGED <<finalized, drain, ret>>
       ELSE /\ ret' = o.ret
            /\ finalized' = TRUE
            /\ drain' = "has"
            /\ fit' = [fit EXCEPT !.pc = "returned"]
            /\ UNCHANGED threadVars
    /\ UNCHANGED input

\* The call of the driving thread.
FitCall ==
  /\ fit # FitIdle
  /\ fit.pc = "call"
  /\ IF fit.op = "addInput" THEN FitCallAddInput ELSE FitCallNoMoreInput
  /\ UNCHANGED <<yielded, view, search>>

\* The call goes on after maybeReserve and returns.
FitReturn ==
  /\ fit # FitIdle
  /\ fit.pc = "maybeReserve"
  /\ reserving # NotReserving
  /\ reserving.result # "pending"
  /\ \E b \in AfterMaybeReserve(Build, reserving.result) :
       IF fit.op = "addInput" THEN AddInputGoesOn(b) ELSE NoMoreInputGoesOn(b)
  /\ fit' = [fit EXCEPT !.pc = "returned"]
  /\ reserving' = NotReserving
  /\ UNCHANGED <<yielded, view, search, nonReclaimableSection>>

NextFit ==
  \/ FitCall
  \/ ReserveReturn
  \/ FitReturn
  \/ Spill

SpecFit == InitFit /\ [][NextFit]_vars

\* ================================================================ properties
\* The rows of a sequence of partitions, in order.
RECURSIVE Flatten(_)
Flatten(ps) == IF ps = <<>> THEN <<>> ELSE Head(ps) \o Flatten(Tail(ps))

\* a and b hold the same rows the same number of times.
SameRows(a, b) ==
  /\ Len(a) = Len(b)
  /\ \A x \in Range(a) \cup Range(b) : Count(a, x) = Count(b, x)

\* The sorted sequence a build that never spills makes of the input.
SortedInput == SortRows(ListRows(input), compareFlags)

\* The partitions the boundary list bs cuts the sorted rows into.
PartitionsOf(rows, bs) ==
  [k \in 1..(Len(bs) - 1) |-> SubSeq(rows, bs[k] + 1, bs[k + 1])]

\* The partitions a build that never spills makes of the sorted outcome s.
MemoryPartitions(s) == PartitionsOf(s, StartRowsLoop(s, 0, <<0>>))

\* The partition keys occurring in rows.
KeysIn(B) == {row.pk : row \in BagToSet(B)}

\* C1: the running row count is the sum of the batch sizes at every moment,
\* and when the drain loop (hasNextPartition(), then nextPartition(), until
\* hasNextPartition() returns false) has ended, the sizes of the yielded
\* partitions add up to that count and the yielded rows are the input rows,
\* each exactly once; spills in between change nothing of it.
C1_RowsConserved ==
  /\ numRows = BagCardinality(input)
  /\ drain = "done" =>
       /\ Len(Flatten(yielded)) = numRows
       /\ BagOfSeq(Flatten(yielded)) = input

\* C1 witness: a drain loop has ended on a build that spilled twice and
\* yielded all of its three rows in at least two partitions.
C1_Witness ==
  /\ drain = "done"
  /\ spillStats >= 2
  /\ Len(yielded) >= 2
  /\ numRows >= 3
  /\ Len(Flatten(yielded)) = numRows

\* C2: when the drain loop has ended, the yielded partitions are as many as
\* the partitions a never-spilling build makes of the same input, and the
\* k-th yielded partition holds the same rows as the k-th of those; this is
\* so for a build that spilled (by the test hook, by spill(), while building
\* or at finalization) and for one that did not.
C2_SpillEquivalence ==
  drain = "done" =>
    /\ Len(yielded) = Len(MemoryPartitions(SortedInput))
    /\ \A k \in 1..Len(yielded) :
         SameRows(yielded[k], MemoryPartitions(SortedInput)[k])

\* C2 witness: a build in merge mode has been drained, with two partitions
\* or more and one of them of two rows or more.
C2_Witness ==
  /\ drain = "done"
  /\ merge
  /\ Len(yielded) >= 2
  /\ \E k \in 1..Len(yielded) : Len(yielded[k]) >= 2

\* C3: in memory mode after noMoreInput() with at least one row, the
\* boundary list starts with 0, ends with the row count and is strictly
\* increasing, so that every partition is non-empty; and its size less one
\* is the number of partitions, one per partition key of the input.
C3_BoundaryList ==
  (finalized /\ ~merge /\ numRows > 0) =>
    /\ Len(partitionStartRows) >= 2
    /\ partitionStartRows[1] = 0
    /\ partitionStartRows[Len(partitionStartRows)] = numRows
    /\ \A k \in 1..(Len(partitionStartRows) - 1) :
         partitionStartRows[k] < partitionStartRows[k + 1]
    /\ Len(partitionStartRows) - 1 = Cardinality(KeysIn(input))

\* C3 witness: a finalized build in memory mode with three partitions.
C3_Witness ==
  /\ finalized
  /\ ~merge
  /\ numRows > 0
  /\ Len(partitionStartRows) = 4

\* The boundary list a linear scan gives.
RECURSIVE LinearStartRows(_, _, _)
LinearStartRows(rows, start, acc) ==
  IF start < Len(rows)
  THEN LinearStartRows(rows, LinearScan(rows, start),
                       Append(acc, LinearScan(rows, start)))
  ELSE acc

\* C4: on every sequence sorted by partition key and for every start, the
\* search returns what the linear scan returns: the smallest index after
\* start whose row has another partition key than row[start], or the length
\* when there is none; run from 0, it gives the boundary list of the linear
\* scan (for the keys A,A,B,B,B,C: 0,2,5,6).
C4_MatchesLinearScan ==
  search.pc = "done" =>
    /\ search.right = LinearScan(sortedRows, search.start)
    /\ findNextPartitionStartRow(sortedRows, search.start) = search.right
    /\ search.start = 0 =>
         computePartitionStartRows(sortedRows).partitionStartRows
           = LinearStartRows(sortedRows, 0, <<0>>)

\* C4 witness: the search from row 2 of the keys A,A,B,B,B,C has returned 5,
\* and the boundary list of these rows is 0,2,5,6.
C4_Witness ==
  /\ search.pc = "done"
  /\ [i \in 1..Len(sortedRows) |-> sortedRows[i].pk] = <<0, 0, 1, 1, 1, 2>>
  /\ search.start = 2
  /\ search.right = 5
  /\ computePartitionStartRows(sortedRows).partitionStartRows = <<0, 2, 5, 6>>

\* Every partition has been returned by the nextPartition() calls made so
\* far: the views received hold every input row.
AllReturned == finalized /\ BagOfSeq(Flatten(yielded)) = input

\* C5 as stated: a nextPartition() called before noMoreInput(), or after
\* every partition has been returned, fails and returns no view, in memory
\* mode and in merge mode.
C5_FailsWheneverExhausted ==
  [][((~finalized \/ AllReturned) /\ NextPartition)
       => (ret' = "fail" /\ view' = <<>>)]_vars

\* C5 amended: a nextPartition() called before noMoreInput(), or after every
\* partition has been returned, fails and returns no view; in merge mode
\* this needs a hasNextPartition() since the last view was returned, for a
\* nextPartition() that directly follows the one that returned the last
\* partition returns that partition again.
C5_FailsWhenExhausted ==
  [][((~finalized \/ (AllReturned /\ (merge => ret # "view"))) /\ NextPartition)
       => (ret' = "fail" /\ view' = <<>>)]_vars

\* C5 witness: in merge mode every partition was returned, hasNextPartition()
\* returned false, and the nextPartition() called then has failed.
C5_Witness ==
  /\ finalized
  /\ merge
  /\ drain = "done"
  /\ yielded # <<>>
  /\ AllReturned
  /\ ret = "fail"

\* C6: with no input rows, noMoreInput() returns normally and changes no
\* field of the build (no sort, no spill, no merge stream), and every
\* hasNextPartition() after it returns false and changes nothing; with
\* spilling enabled, with the test hook firing and after a spill() of the
\* empty build alike.
C6_EmptyInput ==
  [][/\ (numRows = 0 /\ finalized' /\ NoMoreInput) => (ret' = "void" /\ UNCHANGED buildVars)
     /\ (finalized /\ numRows = 0 /\ HasNextPartition)
          => (ret' = "false" /\ UNCHANGED buildVars)]_vars

\* C6 witness: a build with spilling enabled whose empty row container was
\* spilled has been finalized without rows, and hasNextPartition() has
\* returned false.
C6_Witness ==
  /\ finalized
  /\ numRows = 0
  /\ spillConfig
  /\ spiller
  /\ ~merge
  /\ ret = "false"

\* The number of partitions of a build in memory mode.
NumPartitions == Len(partitionStartRows) - 1

\* C7: in memory mode the cursor is before the first partition after
\* noMoreInput(); hasNextPartition() returns true exactly when cursor + 1 is
\* less than the number of partitions P; a nextPartition() with
\* cursor + 1 < P advances the cursor by one and returns the rows from
\* boundary[cursor] up to boundary[cursor + 1] of the sorted rows, so the
\* k-th view is the k-th partition; with cursor + 1 = P or more, as in the
\* (P+1)-th call, it fails.
C7_MemoryCursor ==
  [][/\ (~finalized /\ finalized' /\ ~merge' /\ NoMoreInput)
          => currentPartition' = -1
     /\ (finalized /\ ~merge /\ partitionStartRows # <<>>) =>
          /\ HasNextPartition =>
               ((ret' = "true") <=> (currentPartition + 1 < NumPartitions))
          /\ (currentPartition + 1 < NumPartitions /\ NextPartition) =>
               /\ ret' = "view"
               /\ currentPartition' = currentPartition + 1
               /\ view' = SubSeq(sortedRows,
                                 partitionStartRows[currentPartition' + 1] + 1,
                                 partitionStartRows[currentPartition' + 2])
               /\ drain' # "broken" =>
                    /\ Len(yielded') = currentPartition' + 1
                    /\ yielded'[Len(yielded')] = view'
          /\ (currentPartition + 1 >= NumPartitions /\ NextPartition) =>
               ret' = "fail"]_vars

\* C7 witness: a build in memory mode with two partitions or more has
\* returned all of them, and one more nextPartition() has failed.
C7_Witness ==
  /\ finalized
  /\ ~merge
  /\ Len(partitionStartRows) >= 3
  /\ Len(yielded) = NumPartitions
  /\ currentPartition = NumPartitions
  /\ ret = "fail"

\* C8: in merge mode a hasNextPartition() replaces the buffer by the rows at
\* the front of the merge stream, in stream order, up to the end of the
\* stream or the first row whose partition key differs from the buffered
\* one's (null equal to null); that row stays in the stream; the call
\* returns true exactly when a row was buffered.  So the buffer followed by
\* the remaining stream is the stream before the call, the buffer is a
\* maximal run of one partition key, and it is empty only at the stream's
\* end.
C8_LoadFromSpill ==
  [][(merge /\ HasNextPartition) =>
       /\ sortedRows' \o stream' = stream
       /\ \A i \in 1..Len(sortedRows') : sortedRows'[i].pk = sortedRows'[1].pk
       /\ (stream' # <<>> /\ sortedRows' # <<>>) =>
            stream'[1].pk # sortedRows'[Len(sortedRows')].pk
       /\ stream # <<>> => sortedRows' # <<>>
       /\ data' = BagOfSeq(sortedRows')
       /\ (ret' = "true") <=> (sortedRows' # <<>>)]_vars

\* C8 witness: a load has buffered two rows or more whose partition key is
\* null and has left the row of the next partition in the stream.
C8_Witness ==
  /\ merge
  /\ ret = "true"
  /\ Len(sortedRows) >= 2
  /\ sortedRows[1].pk = NULL
  /\ stream # <<>>

\* The ORDER BY key of the rows v is in the configured order: for i < j the
\* comparison of v[i] with v[j] under the sort order's flags is <= 0.
OrderedBySortKey(v) ==
  \A i, j \in 1..Len(v) :
    i < j => CompareValues(v[i].sk, v[j].sk,
                           [nullsFirst |-> sortKeyInfo.nullsFirst,
                            ascending |-> sortKeyInfo.ascending,
                            equalsOnly |-> FALSE]) <= 0

\* C9: in every partition returned, in memory mode or in merge mode, the
\* ORDER BY keys of any two rows i < j compare <= 0 under the configured
\* nullsFirst and ascending flags.
C9_SortedWithinPartition ==
  /\ ret = "view" => OrderedBySortKey(view)
  /\ \A k \in 1..Len(yielded) : OrderedBySortKey(yielded[k])

\* C9 witness: a partition of three rows with three different ORDER BY keys,
\* one of them null, was returned in merge mode under a descending,
\* nulls-last order.
C9_Witness ==
  /\ ret = "view"
  /\ merge
  /\ ~sortKeyInfo.ascending
  /\ ~sortKeyInfo.nullsFirst
  /\ Len(view) = 3
  /\ Cardinality({view[i].sk : i \in 1..3}) = 3

\* C10: a noMoreInput() on a build with rows that has a spiller when it
\* branches (from a spill before it or from the test hook in it) ends with
\* an empty row container; its spill of the rest leaves every input row in
\* the spilled runs, which are handed to the merge stream, opened over
\* exactly the input rows in the order of the combined key-compare list; no
\* sorted row sequence and no boundary list exist beside it.
C10_FinalFlush ==
  [][(~finalized /\ finalized' /\ numRows > 0 /\ spiller'
        /\ NoMoreInput) =>
       /\ ret' = "void"
       /\ merge'
       /\ BagCardinality(data') = 0
       /\ \A b \in spill(Build) :
            /\ BagOfSeq(RunRows(b.runs)) = input
            /\ Len(b.runs) = spillStats'
       /\ runs' = <<>>
       /\ BagOfSeq(stream') = input
       /\ IsSortedBy(stream', compareFlags)
       /\ sortedRows' = <<>>
       /\ partitionStartRows' = <<>>]_vars

\* C10 witness: noMoreInput() has just opened the merge stream over two
\* runs that hold three rows.
C10_Witness ==
  /\ finalized
  /\ merge
  /\ drain = "has"
  /\ ret = "void"
  /\ BagCardinality(data) = 0
  /\ spillStats = 2
  /\ Len(stream) = 3


\* The driving thread is inside a reservation request: maybeReserve has been
\* called under the guard and has not returned.
InAttempt == reserving # NotReserving /\ reserving.result = "pending"

BatchPassed == input' (-) input

\* C12: a failed reservation request of ensureInputFits is no error and
\* forces no spill.  The return of maybeReserve without the reservation
\* changes nothing of the build; addInput then goes on after ensureInputFits
\* with the spiller, the spilled runs and the Row Store as the request left
\* them, stores every row of the batch, adds the batch size to the row
\* count and returns normally.
C12_FailedReserveInput ==
  [][(reserving # NotReserving /\ reserving.op = "addInput") =>
       /\ (ReserveReturn /\ reserving'.result = "failed") =>
            UNCHANGED <<buildVars, callerVars>>
       /\ (FitReturn /\ reserving.result = "failed") =>
            /\ data' = data (+) BatchPassed
            /\ BagCardinality(BatchPassed) = fit.in.size
            /\ numRows' = numRows + fit.in.size
            /\ UNCHANGED <<spiller, runs, spillStats>>
            /\ ret' = "void"]_vars

\* C12 witness: the reservation request of an addInput() call with a batch
\* of two rows has failed; the Row Store still holds its two rows, nothing
\* has been spilled and the call has not failed.
C12_Witness ==
  /\ fit.pc = "maybeReserve"
  /\ fit.in.size = 2
  /\ reserving # NotReserving
  /\ reserving.op = "addInput"
  /\ reserving.result = "failed"
  /\ BagCardinality(data) = 2
  /\ numRows = 2
  /\ ~spiller
  /\ ret # "fail"


\* C13: with spilling disabled or an empty Row Store, ensureInputFits
\* returns the build as it is and asks for no reservation, whether the test
\* hook fires or not and whatever the batch; an addInput() call from such a
\* state writes no run, sets up no spiller, enters no reservation request
\* and stores the batch, so the first spill forced in addInput() is on a
\* batch that arrives on a non-empty Row Store.
C13_NoOpWhenDisabledOrEmpty ==
  [][/\ (/\ fit.pc = "call"
         /\ fit.op = "addInput"
         /\ (~spillConfig \/ BagCardinality(data) = 0)) =>
          /\ \A testingTriggerSpill \in BOOLEAN : \A fits \in BOOLEAN :
                ensureInputFits(Build, testingTriggerSpill, fits)
                  = {[build |-> Build, reserve |-> FALSE]}
          /\ \/ /\ UNCHANGED <<spiller, runs, spillStats, threadVars>>
                /\ data' = data (+) BatchPassed
                /\ fit'.pc = "returned"
             \/ ~FitCall
     /\ (/\ fit.pc = "call"
         /\ fit.op = "addInput"
         /\ spillStats' > spillStats
         /\ ~(spillConfig /\ BagCardinality(data) > 0)) => ~FitCall]_vars

\* C13 witness: a build with spilling enabled has been passed its first
\* row, on an empty Row Store and with the test hook firing; the row is
\* stored and nothing has been spilled or requested.
C13_Witness ==
  /\ spillConfig
  /\ fit.pc = "returned"
  /\ fit.op = "addInput"
  /\ fit.in.testingTriggerSpill
  /\ fit.in.size = 1
  /\ reserving = NotReserving
  /\ BagCardinality(input) = 1
  /\ data = input
  /\ ~spiller
  /\ spillStats = 0


\* The iteration mode of a finalized build with rows is in force: in merge
\* mode the ordered reader exists, in memory mode the sorted sequence and
\* the boundary list do.
MergeModeInForce == merge
MemoryModeInForce == Len(sortedRows) = numRows /\ partitionStartRows # <<>>

ModeSelected ==
  finalized =>
    /\ merge <=> (spiller /\ numRows > 0)
    /\ numRows > 0 => (MergeModeInForce <=> ~MemoryModeInForce)
    /\ merge => partitionStartRows = <<>>
    /\ ~merge => stream = <<>>

\* C14: once noMoreInput() has returned, exactly one iteration mode is in
\* force and no step of the drain changes it.  The ordered reader exists
\* exactly when the build has spilled, at finalization at the latest, and
\* has rows; in merge mode the boundary list is empty, in memory mode there
\* is no merge stream.
C14_OneMode ==
  [][/\ ModeSelected
     /\ ModeSelected'
     /\ finalized => merge' = merge
     /\ ~finalized => ~merge]_vars

\* C14 witness: a build with rows that has spilled is drained in merge mode,
\* one partition has been returned and another is still in the stream; the
\* boundary list is empty.
C14_Witness ==
  /\ finalized
  /\ merge
  /\ spiller
  /\ numRows = 3
  /\ Len(yielded) = 1
  /\ stream # <<>>
  /\ partitionStartRows = <<>>


\* C15: when ensureInputFits is called with spilling enabled, a non-empty
\* Row Store and the test hook inactive, and the available reservation is at
\* least minSpillableReservationPct percent of the usage, the free rows are
\* at least the rows of the batch and the free variable-length bytes are at
\* least the average variable-length bytes of a stored row times the rows of
\* the batch, it returns without calling maybeReserve.
C15_FitsWithoutReserve ==
  [][(/\ fit # FitIdle
      /\ fit.pc = "call"
      /\ fit.op = "addInput"
      /\ spillConfig
      /\ BagCardinality(data) > 0
      /\ ~fit.in.testingTriggerSpill
      /\ fit.in.availableReservation * 100
            >= fit.in.usedBytes * fit.in.minSpillableReservationPct
      /\ fit.in.freeRows >= fit.in.size
      /\ fit.in.outOfLineFreeBytes * BagCardinality(data)
            >= (fit.in.retainedSize - fit.in.outOfLineFreeBytes) * fit.in.size
      /\ FitCall)
       => (fit'.pc = "returned" /\ reserving' = NotReserving)]_vars


\* C16: every spill() leaves the Row Store empty and the row count as it
\* was: a spill() called in the current state does, and a step in which a
\* run is written ends with only the rows passed in that step in the Row
\* Store and counted on top.  The spiller is constructed once, by the first
\* spill(), with sorting keys that carry the combined key-compare list, and
\* stays as constructed; the check of setupSpiller never fails.
C16_SpillClearsAndReuses ==
  [][/\ ~checkFailed /\ ~checkFailed'
     /\ spillConfig =>
          \A b \in spill(Build) :
            /\ b.data = EmptyBag
            /\ b.numRows = numRows
            /\ b.spiller
            /\ ~b.checkFailed
            /\ KeyFlags(b.sortingKeys) = compareFlags
            /\ spiller => b.sortingKeys = sortingKeys
     /\ spillStats' > spillStats =>
          /\ data' = BatchPassed
          /\ numRows' = numRows + BagCardinality(BatchPassed)
     /\ \/ data' = EmptyBag /\ numRows' = numRows /\ spiller'
        \/ ~Spill
     /\ spiller => (spiller' /\ sortingKeys' = sortingKeys)
     /\ ~spiller => sortingKeys = <<>>
     /\ spiller' => KeyFlags(sortingKeys') = compareFlags']_vars

\* C16 witness: two runs have been written before the end of the input, the
\* second by the spiller the first spill() constructed; the Row Store is
\* empty and the row count is that of the three rows passed.
C16_Witness ==
  /\ ~finalized
  /\ reserving = NotReserving
  /\ spiller
  /\ spillStats = 2
  /\ KeyFlags(sortingKeys) = compareFlags
  /\ ~checkFailed
  /\ data = EmptyBag
  /\ numRows = 3


\* Every row of the view is a row of the Row Store.
ViewInStore(v, d) == \A x \in Range(v) : Count(v, x) <= CopiesIn(x, d)

\* C17: in memory mode, once noMoreInput() has built the sorted sequence and
\* the boundary list, no step (hasNextPartition(), nextPartition(), or a
\* spill() during the drain) changes the sorted sequence or the boundary
\* list or the Row Store, and the rows of the view nextPartition() returns
\* are rows of the Row Store.
C17_MemoryModeStable ==
  [][(finalized /\ ~merge /\ numRows > 0) =>
       /\ UNCHANGED <<sortedRows, partitionStartRows, data>>
       /\ ViewInStore(view', data')]_vars


\* C18: every call of findNextPartitionStartRow returns, with a result
\* after start and at most the number of rows; the loop of
\* computePartitionStartRows so moves start forward with every call, has
\* made at most as many calls as there are rows from where it began, and
\* ends with start at the number of rows.
C18_SearchTerminates ==
  /\ [](search.pc = "done" =>
         (search.start < search.right /\ search.right <= Len(sortedRows)))
  /\ [](search.calls <= Len(sortedRows) - search.first)
  /\ [](search.pc = "end" => search.right = Len(sortedRows))
  /\ <>(search.pc = "end")

\* C18 witness: the loop has ended after three calls from row 0 of eight
\* rows in three partitions, with start at 8.
C18_Witness ==
  /\ search.pc = "end"
  /\ search.first = 0
  /\ search.calls = 3
  /\ Len(sortedRows) = 8
  /\ search.right = 8
  /\ Len(partitionStartRows) = 4


\* ceil(log2 n) for n >= 1.
RECURSIVE CeilLog2(_)
CeilLog2(n) == IF n <= 1 THEN 0 ELSE 1 + CeilLog2((n + 1) \div 2)

\* The call has returned having found start's partition to be one row.
OneRowPartition == search.pc = "done" /\ search.right = search.start + 1

\* The call from row 0 has returned having found one partition spanning
\* all the rows.
OnePartitionSpansAll ==
  search.pc = "done" /\ search.start = 0 /\ search.right = Len(sortedRows)

FinalizingUnspilled ==
  /\ fit.pc = "call"
  /\ fit.op = "noMoreInput"
  /\ ~spiller
  /\ ~spiller'
  /\ FitCall

\* The reservation request of ensureSortFits is over.
SortAttemptOver ==
  /\ reserving # NotReserving
  /\ reserving.op = "noMoreInput"
  /\ reserving.result # "pending"

\* The rows of the Row Store have been sorted in memory and the boundary list
\* computed from them; the build is in memory mode.
SortedInMemory ==
  /\ ~merge' /\ ~spiller'
  /\ data' = data
  /\ BagOfSeq(sortedRows') = data
  /\ IsSortedBy(sortedRows', compareFlags)
  /\ partitionStartRows' = computePartitionStartRows(sortedRows').partitionStartRows

\* C20 as stated: a noMoreInput() on a build that has not spilled, with the
\* test hook inactive, makes one reservation request in ensureSortFits, and
\* when the request has failed the call goes on without an error and
\* without a spill: the rows are sorted in memory, the boundary list is
\* computed and the build is in memory mode.
C20_OneAttemptThenMemory ==
  [][/\ FinalizingUnspilled => InAttempt'
     /\ (SortAttemptOver /\ reserving.result = "failed" /\ FitReturn) =>
          (ret' = "void" /\ SortedInMemory)]_vars

\* C20 amended: a noMoreInput() on a build with spilling enabled and at
\* least one row that has not spilled, with the test hook inactive, makes
\* exactly one reservation request in ensureSortFits; with spilling
\* disabled or without rows it makes none.  The failure of the request
\* changes nothing of the build and is no error, and the call goes on to
\* its end without another request: unless a spill() of the memory
\* governor was executed during the request, which puts the build in merge
\* mode, the rows are sorted in memory, the boundary list is computed and
\* the build is in memory mode.
C20_OneAttemptSoftFailure ==
  [][/\ (spillConfig /\ numRows > 0 /\ FinalizingUnspilled) =>
          /\ InAttempt'
          /\ reserving'.op = "noMoreInput"
          /\ UNCHANGED <<buildVars, finalized>>
     /\ ((~spillConfig \/ numRows = 0) /\ FinalizingUnspilled) =>
          (finalized' /\ reserving' = NotReserving)
     /\ (InAttempt /\ reserving.op = "noMoreInput" /\ ~InAttempt') =>
          UNCHANGED <<buildVars, callerVars>>
     /\ (SortAttemptOver /\ FitReturn) =>
          /\ finalized' /\ reserving' = NotReserving
          /\ ret' = "void"
          /\ IF spiller THEN merge' ELSE SortedInMemory
     /\ finalized => reserving = NotReserving]_vars

\* C20 witness: the reservation request of noMoreInput() on a build of
\* two different rows that has not spilled has failed; the rows are still
\* in the Row Store and no spiller exists.
C20_Witness ==
  /\ SortAttemptOver
  /\ reserving.result = "failed"
  /\ ~spiller
  /\ numRows = 2
  /\ Cardinality(BagToSet(data)) = 2
  /\ ~finalized


\* The search is inside a findNextPartitionStartRow(start) call, or has just
\* returned from one.
InSearch == search.pc \in {"while", "for", "advance", "done", "end"}

\* The for loop is about to read sortedRows_[left] and
\* sortedRows_[left + distance].
ProbeAhead ==
  search.pc = "for" /\ search.distance < search.lastPosition - search.left

\* C21: during any findNextPartitionStartRow(start) call on a sequence of n
\* rows, left lies in [start, n) and so does every probe index
\* left + distance the for loop reads, the row at left has the partition key
\* of the row at start, and lastPosition is n or the index of a row of
\* [start, n) whose partition key differs from that of the row at start.
C21_SearchInBounds ==
  InSearch =>
    LET n == Len(sortedRows)
    IN /\ search.start <= search.left
       /\ search.left < n
       /\ ProbeAhead =>
            /\ search.start <= search.left + search.distance
            /\ search.left + search.distance < n
       /\ search.pc = "advance" => search.right < n
       /\ sortedRows[search.left + 1].pk = sortedRows[search.start + 1].pk
       /\ \/ search.lastPosition = n
          \/ /\ search.start < search.lastPosition
             /\ search.lastPosition < n
             /\ sortedRows[search.lastPosition + 1].pk
                  # sortedRows[search.start + 1].pk

\* C21 witness: a search that did not start at row 0 has found a row of
\* another partition before the end of the sequence, has moved left forward
\* and is about to probe again.
C21_Witness ==
  /\ InSearch
  /\ ProbeAhead
  /\ search.start > 0
  /\ search.left > search.start + 1
  /\ search.lastPosition < Len(sortedRows)
  /\ search.lastPosition > search.left + 1


\* hasNextPartition() has returned false after noMoreInput().
Exhausted == finalized /\ drain = "done"

\* C22: once hasNextPartition() has returned false after noMoreInput(),
\* every later hasNextPartition() returns false and every later
\* nextPartition() fails and returns no view, in memory mode and in merge
\* mode; no partition is returned any more, the mode, the sorted sequence of
\* memory mode and the boundary list stay as they are and the merge stream
\* stays empty.
C22_ExhaustionAbsorbing ==
  [][Exhausted =>
       /\ \/ ret' = "false" /\ HasNextPartition
          \/ ret' = "fail" /\ view' = <<>> /\ NextPartition
       /\ Exhausted'
       /\ yielded' = yielded
       /\ merge' = merge
       /\ partitionStartRows' = partitionStartRows
       /\ merge => (stream = <<>> /\ stream' = <<>> /\ sortedRows' = <<>>)
       /\ ~merge => sortedRows' = sortedRows]_vars

\* C22 witness: in memory mode two partitions were returned,
\* hasNextPartition() returned false, the nextPartition() called then failed
\* and moved the cursor past the last partition, and the hasNextPartition()
\* called after it has returned false again.
C22_Witness ==
  /\ Exhausted
  /\ ~merge
  /\ Len(yielded) = 2
  /\ partitionStartRows # <<>>
  /\ currentPartition = Len(partitionStartRows) - 1
  /\ ret = "false"


\* The last call of the caller was a hasNextPartition().
AfterHasNextPartition == ret \in {"true", "false"}

\* C23: in memory mode a hasNextPartition() changes no field of the build
\* (cursor, sorted sequence, boundary list, Row Store) and nothing that was
\* returned; a call that directly follows another hasNextPartition() returns
\* the same value, and the nextPartition() called next returns after the
\* call what it would have returned before it.
C23_HasNextReadsOnly ==
  [][\/ merge
     \/ /\ UNCHANGED <<buildVars, finalized, input, yielded, view>>
        /\ ret' = hasNextPartition(Build).ret
        /\ AfterHasNextPartition => ret' = ret
        /\ nextPartition(hasNextPartition(Build).build) = nextPartition(Build)
     \/ ~HasNextPartition]_vars

\* C23 witness: in memory mode, with one partition returned and another
\* left, hasNextPartition() was called twice in a row and has returned true
\* both times; the cursor is still on the partition returned.
C23_Witness ==
  /\ finalized
  /\ ~merge
  /\ drain = "broken"
  /\ ret = "true"
  /\ Len(yielded) = 1
  /\ currentPartition = 0
  /\ Len(partitionStartRows) > 2

=============================================================================
